---- MODULE Spec2Model ----
(***************************************************************************)
(* The wallbox charger device (src/drivers/wallbox/device.js): its poll    *)
(* cycle, the interval timer that drives it, and the device lifecycle      *)
(* (onInit, onSettings, onDeleted); and the poll cycle of the older        *)
(* version of the device (src/unnamed/part_000).                           *)
(*                                                                         *)
(* A poll() invocation is an async function.  It is suspended on the two   *)
(* calls of the charger API, getChargerStatus and getSessionsList; the     *)
(* code between two suspensions runs as one step.  The host's store calls  *)
(* (setCapabilityValue, setAvailable, setUnavailable) take effect within   *)
(* the step that calls them; a call that is not awaited may not have       *)
(* completed when the next statement runs.  The interval timer may tick at *)
(* any moment, so several poll() invocations of one device can be          *)
(* suspended at the same time.                                             *)
(*                                                                         *)
(* JavaScript values: a value that may be null is a sequence, <<>> for     *)
(* null and <<v>> for v.  A Number is a binary floating-point number: here *)
(* an integer (a count of some fixed fraction of the unit) with a          *)
(* significand of Precision bits, and every sum, difference and product of *)
(* energies, prices, costs and powers is rounded to the nearest such       *)
(* number, ties to even.  Whole seconds and milliseconds are exact.        *)
(***************************************************************************)
EXTENDS Integers, Sequences, FiniteSets, TLC

\* ------------------------------------------------------------------ bounds
MaxPolls == 3
MaxPollsAnyInput == 2
MaxEnergy == 2
MaxPrice == 2
MaxSessions == 4
MaxSettings == 1
\* Bits of the significand of a Number (a double has 53)
Precision == 7

POLL_INTERVAL == 10

\* ------------------------------------------------------------ JS values
Null == <<>>
Some(v) == <<v>>

\* ToNumber of a held numeric value: null converts to 0
Num(o) == IF o = Null THEN 0 ELSE o[1]

\* The spacing of the Numbers around a >= 0 (q is a lower bound of it)
RECURSIVE Ulp(_, _)
Ulp(a, q) == IF a < q * 2^Precision THEN q ELSE Ulp(a, 2 * q)

\* The Number nearest to x, ties to the even significand
fl(x) ==
  LET a == IF x < 0 THEN 0 - x ELSE x
      q == Ulp(a, 1)
      m == a \div q
      r == a % q
      up == 2 * r > q \/ (2 * r = q /\ m % 2 = 1)
      v == (IF up THEN m + 1 ELSE m) * q
  IN IF x < 0 THEN 0 - v ELSE v

\* The operators +, - and * of JavaScript on Numbers
Plus(a, b) == fl(a + b)
Minus(a, b) == fl(a - b)
Times(a, b) == fl(a * b)

\* Boolean(x) of a config flag the API gives as 0 or 1
Boolean(x) == x # 0

\* Number.prototype.toString on the user ids of the model
toString(n) == CASE n = 7 -> "7" [] n = 8 -> "8" [] OTHER -> "0"

\* --------------------------------------------------------- status table
\* lib/statuses.getStatus: status code -> canonical name, Unknown otherwise
getStatus(statusId) ==
  CASE statusId = 0 -> "Disconnected"
    [] statusId = 1 -> "Ready"
    [] statusId = 2 -> "Charging"
    [] statusId = 3 -> "Paused"
    [] statusId = 4 -> "Error"
    [] statusId = 5 -> "Updating"
    [] OTHER -> "Unknown"

getChargerStatusName(stats) == getStatus(stats.status_id)

\* ------------------------------------------------------------- inputs
DeviceId == "A"
OtherId == "B"

Config(locked, price, v) ==
  [locked |-> locked, max_available_current |-> 32 - v,
   energy_price |-> price, max_charging_current |-> 16 - v]

Snapshot(sid, power, energy, uid, cfg) ==
  [status_id |-> sid, charging_power |-> power, added_energy |-> energy,
   user_id |-> uid, user_name |-> IF uid = Null THEN Null ELSE Some("user"),
   config_data |-> cfg]

\* The snapshots getChargerStatus may return: every session energy and price
\* while charging, every status code, a changed configuration, and the two
\* malformed shapes (no config block, no user).
Snapshots ==
     { Snapshot(2, 1, e, Some(7), Some(Config(0, p, 0))) :
         e \in 0..MaxEnergy, p \in 1..MaxPrice }
  \cup { Snapshot(s, 0, 0, Some(7), Some(Config(0, 1, 0))) : s \in 0..6 }
  \cup { Snapshot(3, 0, 1, Some(8), Some(Config(1, 1, 1))) }
  \cup { Snapshot(1, 0, 0, Some(7), Null),
         Snapshot(1, 0, 0, Null, Some(Config(0, 1, 0))) }

FewSnapshots ==
  { Snapshot(2, 1, 1, Some(7), Some(Config(0, 1, 0))),
    Snapshot(1, 0, 0, Some(7), Some(Config(0, 1, 0))),
    Snapshot(1, 0, 0, Some(7), Null) }

\* One historical session: the charger it belongs to and its energy
\* (<<>> when the attribute is undefined)
Session(charger, energy) == [charger |-> charger, energy |-> energy]

\* The session history of the account grows at its end: the API returns a
\* prefix of it.  It holds sessions of this charger and of another one, and
\* one without an energy attribute.
History(n) ==
  [k \in 1..n |->
     CASE k % 3 = 1 -> Session(DeviceId, Some(1))
       [] k % 3 = 2 -> Session(OtherId, Some(2))
       [] OTHER     -> Session(DeviceId, Null)]

SessionLists == { History(n) : n \in 0..MaxSessions }

\* What getSessionsList resolves to: a body with a data list
SessionBodies == { [data |-> Some(l)] : l \in SessionLists }

FewBodies == { [data |-> Some(History(0))] }

CapabilityNames ==
  { "status", "locked", "onoff", "maximum_available_current", "measure_power",
    "meter_power_session", "meter_session_cost", "meter_power",
    "measure_energy_cost", "measure_maximum_charging_current",
    "user_id", "user_name" }

\* ------------------------------------------------------------- state
VARIABLES
  caps,        \* the capability store: capability name -> held value
  available,   \* the availability flag of the device
  setting,     \* the 'polling' setting (seconds), <<>> when not set
  polling,     \* this.polling: the handle of an interval timer, <<>> at first
  timers,      \* the active interval timers: [id, period]
  nTimers,     \* number of timers created so far (the next handle)
  nSettings,   \* number of onSettings calls so far
  initPc,      \* where onInit is
  deleted,     \* onDeleted has been called
  cycles,      \* the poll() invocations, in the order they started
  nPolls,      \* number of poll() invocations started
  prev,        \* inputs of the cycle that completed last, <<>> unless it succeeded
  unhandled,   \* number of poll() rejections that reached the timer
  last         \* what the latest step did

vars == << caps, available, setting, polling, timers, nTimers, nSettings,
           initPc, deleted, cycles, nPolls, prev, unhandled, last >>

\* --------------------------------------------- the store and the events
\* A store under reconciliation: the held values and the operations issued
\* so far by the running step (writes and flow triggers, in order).  same:
\* the write was of the held value.  settled: the promise of the call had
\* settled when the caller went on.
\* await this.setCapabilityValue(...)
setCapabilityValue(st, capabilityName, value) ==
  [caps |-> [st.caps EXCEPT ![capabilityName] = Some(value)],
   ops  |-> Append(st.ops, [op |-> "set", name |-> capabilityName,
                            same |-> st.caps[capabilityName] = Some(value),
                            settled |-> TRUE])]

\* this.setCapabilityValue(...) without await: the caller goes on whether
\* the host has completed the write or not
setCapabilityValueNotAwaited(st, capabilityName, value, settled) ==
  [caps |-> [st.caps EXCEPT ![capabilityName] = Some(value)],
   ops  |-> Append(st.ops, [op |-> "set", name |-> capabilityName,
                            same |-> st.caps[capabilityName] = Some(value),
                            settled |-> settled])]

trigger(st, card) ==
  [caps |-> st.caps,
   ops  |-> Append(st.ops, [op |-> "trigger", name |-> card, same |-> FALSE,
                            settled |-> TRUE])]

whenChangedSetCapabilityValue(st, capabilityName, currentCapabilityValue) ==
  LET oldCapabilityValue == st.caps[capabilityName] IN
  IF Some(currentCapabilityValue) # oldCapabilityValue
    THEN setCapabilityValue(st, capabilityName, currentCapabilityValue)
    ELSE st

\* A triggerStatusChange that returns early on Error only
triggerStatusChangeErrorOnly(oldStatus, newStatus) ==
  LET first == << "status_changed" >>
      onOld == IF oldStatus = Some("Charging") THEN << "charging_ended" >>
               ELSE IF oldStatus = Some("Ready") THEN << "car_connected" >>
               ELSE << >>
      onNew == IF newStatus = "Charging" THEN << "charging_started" >>
               ELSE IF newStatus = "Ready" THEN << "car_unplugged" >>
               ELSE << >>
  IN IF newStatus = "Error"
       THEN first
       ELSE first \o onOld \o onNew

\* The flow cards triggerStatusChange fires, in order
triggerStatusChange(oldStatus, newStatus) ==
  LET first == << "status_changed" >>
      onOld == IF oldStatus = Some("Charging") THEN << "charging_ended" >>
               ELSE IF oldStatus = Some("Ready") THEN << "car_connected" >>
               ELSE << >>
      onNew == IF newStatus = "Charging" THEN << "charging_started" >>
               ELSE IF newStatus = "Ready" THEN << "car_unplugged" >>
               ELSE << >>
  IN IF newStatus = "Error" \/ newStatus = "Updating"
       THEN first
       ELSE first \o onOld \o onNew

RECURSIVE triggerAll(_, _)
triggerAll(st, cards) ==
  IF cards = << >> THEN st
  ELSE triggerAll(trigger(st, Head(cards)), Tail(cards))

\* A checkDeviceAvailability that takes Error for an available charger
checkDeviceAvailabilityDisconnectedOnly(stats) ==
  LET newStatus == getChargerStatusName(stats) IN
  ~ (newStatus = "Disconnected")

\* FALSE: setUnavailable, TRUE: setAvailable
checkDeviceAvailability(stats) ==
  LET newStatus == getChargerStatusName(stats) IN
  ~ (newStatus = "Disconnected" \/ newStatus = "Error")

whenChangedSetAndTriggerStatus(st, stats, settled) ==
  LET oldStatus == st.caps["status"]
      newStatus == getChargerStatusName(stats)
  IN IF oldStatus # Some(newStatus)
       THEN triggerAll(setCapabilityValueNotAwaited(st, "status", newStatus, settled),
                       triggerStatusChange(oldStatus, newStatus))
       ELSE st

\* The loop of retrieveEnergyHistoricalTotal over sessions['data']
RECURSIVE sumSessions(_, _)
sumSessions(data, id) ==
  IF data = << >> THEN 0
  ELSE LET n == Len(data)
           session == data[n]
           totalEnergy == sumSessions(SubSeq(data, 1, n - 1), id)
       IN IF session.charger = id /\ session.energy # Null
            THEN Plus(totalEnergy, session.energy[1])
            ELSE totalEnergy

\* sessions is the body getSessionsList resolved to, with a data list
retrieveEnergyHistoricalTotal(sessions) == sumSessions(sessions.data[1], DeviceId)

whenChangedSetTotalEnergy(st, currentSessionEnergySupplied, oldSessionEnergySupplied, totalEnergy) ==
  IF Plus(currentSessionEnergySupplied, totalEnergy)
       # Plus(Num(oldSessionEnergySupplied), totalEnergy)
    THEN setCapabilityValue(st, "meter_power",
                            Plus(totalEnergy, currentSessionEnergySupplied))
    ELSE st

\* A session cost that bills the whole session energy at every change
sessionCostOfWholeEnergy(currentSessionEnergySupplied, oldSessionEnergySupplied, oldSessionCost, energyCost) ==
  IF currentSessionEnergySupplied < Num(oldSessionEnergySupplied)
     \/ currentSessionEnergySupplied = 0
    THEN Times(currentSessionEnergySupplied, energyCost)
    ELSE Plus(Num(oldSessionCost), Times(currentSessionEnergySupplied, energyCost))

sessionCostOf(currentSessionEnergySupplied, oldSessionEnergySupplied, oldSessionCost, energyCost) ==
  IF currentSessionEnergySupplied < Num(oldSessionEnergySupplied)
     \/ currentSessionEnergySupplied = 0
    THEN Times(currentSessionEnergySupplied, energyCost)
    ELSE Plus(Num(oldSessionCost),
              Times(Minus(currentSessionEnergySupplied, Num(oldSessionEnergySupplied)),
                    energyCost))

whenChangedSetSessionCost(st, currentSessionEnergySupplied, oldSessionEnergySupplied, energyCost) ==
  LET oldSessionCost == st.caps["meter_session_cost"]
      sessionCost == sessionCostOf(currentSessionEnergySupplied,
                                   oldSessionEnergySupplied, oldSessionCost, energyCost)
  IN IF oldSessionCost # Some(sessionCost)
       THEN setCapabilityValue(st, "meter_session_cost", sessionCost)
       ELSE st

\* whenChangedSetCapabilities up to the call of getSessionsList (lines 141-154,
\* 188); stats has a config block
whenChangedSetCapabilitiesHead(st, stats) ==
  LET cfg == stats.config_data[1]
      isLocked == Boolean(cfg.locked)
      s1 == whenChangedSetCapabilityValue(st, "locked", isLocked)
      newStatus == getChargerStatusName(stats)
      isOnOff == newStatus # "Paused"
      s2 == whenChangedSetCapabilityValue(s1, "onoff", isOnOff)
      s3 == whenChangedSetCapabilityValue(s2, "maximum_available_current",
                                          cfg.max_available_current)
      chargingPowerInW == Times(stats.charging_power, 1000)
  IN whenChangedSetCapabilityValue(s3, "measure_power", chargingPowerInW)

\* A whenChangedSetCapabilities that writes the session energy before the
\* session cost and the total energy
whenChangedSetCapabilitiesTailSessionEnergyFirst(st, stats, oldSessionEnergySupplied, sessions) ==
  LET cfg == stats.config_data[1]
      sessionEnergySupplied == stats.added_energy
      energyCost == cfg.energy_price
      totalEnergy == retrieveEnergyHistoricalTotal(sessions)
      s1 == whenChangedSetCapabilityValue(st, "meter_power_session", sessionEnergySupplied)
      s2 == whenChangedSetSessionCost(s1, sessionEnergySupplied,
                                      oldSessionEnergySupplied, energyCost)
      s3 == whenChangedSetTotalEnergy(s2, sessionEnergySupplied,
                                      oldSessionEnergySupplied, totalEnergy)
      s4 == whenChangedSetCapabilityValue(s3, "measure_energy_cost", energyCost)
      s5 == whenChangedSetCapabilityValue(s4, "measure_maximum_charging_current",
                                          cfg.max_charging_current)
  IN IF stats.user_id = Null
       THEN [caps |-> s5.caps, ops |-> s5.ops, threw |-> TRUE]
       ELSE LET s6 == whenChangedSetCapabilityValue(s5, "user_id", toString(stats.user_id[1]))
                s7 == whenChangedSetCapabilityValue(s6, "user_name", stats.user_name[1])
            IN [caps |-> s7.caps, ops |-> s7.ops, threw |-> FALSE]

\* whenChangedSetCapabilities after getSessionsList resolved with a data list
\* (lines 189-193, 159-172).  threw: stats['user_id'].toString() on null.
whenChangedSetCapabilitiesTail(st, stats, oldSessionEnergySupplied, sessions) ==
  LET cfg == stats.config_data[1]
      sessionEnergySupplied == stats.added_energy
      energyCost == cfg.energy_price
      totalEnergy == retrieveEnergyHistoricalTotal(sessions)
      s1 == whenChangedSetTotalEnergy(st, sessionEnergySupplied,
                                      oldSessionEnergySupplied, totalEnergy)
      s2 == whenChangedSetSessionCost(s1, sessionEnergySupplied,
                                      oldSessionEnergySupplied, energyCost)
      s3 == whenChangedSetCapabilityValue(s2, "meter_power_session", sessionEnergySupplied)
      s4 == whenChangedSetCapabilityValue(s3, "measure_energy_cost", energyCost)
      s5 == whenChangedSetCapabilityValue(s4, "measure_maximum_charging_current",
                                          cfg.max_charging_current)
  IN IF stats.user_id = Null
       THEN [caps |-> s5.caps, ops |-> s5.ops, threw |-> TRUE]
       ELSE LET s6 == whenChangedSetCapabilityValue(s5, "user_id", toString(stats.user_id[1]))
                s7 == whenChangedSetCapabilityValue(s6, "user_name", stats.user_name[1])
            IN [caps |-> s7.caps, ops |-> s7.ops, threw |-> FALSE]

\* ------------------------------------------------------------- cycles
\* A poll() invocation.  pc: idle (not started), fetch (suspended on
\* getChargerStatus), sessions (suspended on getSessionsList), done
\* (completed normally), rejected (completed with an error).
\* stats and oldE are its locals; the other fields record, for the claims,
\* what was held when it started, what it wrote and emitted, the inputs of
\* the cycle that had completed last when it started, and whether another
\* cycle was in flight at any moment of its own flight.
IdleCycle ==
  [pc |-> "idle", caller |-> "none", stats |-> Null, oldE |-> Null,
   startE |-> Null, startC |-> Null, writes |-> 0, evs |-> 0, prevIn |-> Null,
   overlapped |-> FALSE]

Ended(c, outcome) == [IdleCycle EXCEPT !.pc = outcome, !.caller = c.caller]

NoStep == [act |-> "none", id |-> 0, ops |-> << >>, cycle |-> IdleCycle, sess |-> Null]

RECURSIVE countOps(_, _)
countOps(ops, kind) ==
  IF ops = << >> THEN 0
  ELSE (IF Head(ops).op = kind THEN 1 ELSE 0) + countOps(Tail(ops), kind)

Account(c, ops) ==
  [c EXCEPT !.writes = @ + countOps(ops, "set"), !.evs = @ + countOps(ops, "trigger")]

Init ==
  /\ caps = [n \in CapabilityNames |-> Null]
  /\ available = TRUE
  /\ setting = Null
  /\ polling = Null
  /\ timers = {}
  /\ nTimers = 0
  /\ nSettings = 0
  /\ initPc = "new"
  /\ deleted = FALSE
  /\ cycles = [i \in 1..MaxPolls |-> IdleCycle]
  /\ nPolls = 0
  /\ prev = Null
  /\ unhandled = 0
  /\ last = NoStep

InFlight(c) == c.pc \in {"fetch", "sessions"}

\* poll() is called: it runs up to the await of getChargerStatus
StartedCycle(caller) ==
  [IdleCycle EXCEPT !.pc = "fetch", !.caller = caller,
                    !.startE = caps["meter_power_session"],
                    !.startC = caps["meter_session_cost"],
                    !.prevIn = prev,
                    !.overlapped = \E j \in 1..MaxPolls : InFlight(cycles[j])]

StartPoll(i, caller) ==
  cycles' = [j \in 1..MaxPolls |->
               IF j = i THEN StartedCycle(caller)
               ELSE IF InFlight(cycles[j]) THEN [cycles[j] EXCEPT !.overlapped = TRUE]
               ELSE cycles[j]]

\* poll() of cycle i has settled: its promise goes back to its caller.  The
\* first poll is awaited by onInit; a timer's poll is awaited by nobody.
Settle(i, c, outcome, ok, sess) ==
  /\ cycles' = [cycles EXCEPT ![i] = Ended(c, outcome)]
  /\ prev' = IF ok THEN Some([stats |-> c.stats[1], sess |-> sess]) ELSE Null
  /\ IF c.caller = "init"
       THEN /\ initPc' = (IF outcome = "done" THEN "done" ELSE "failed")
            /\ unhandled' = unhandled
       ELSE /\ initPc' = initPc
            /\ unhandled' = unhandled + (IF outcome = "rejected" THEN 1 ELSE 0)

\* ----------------------------------------------------------- lifecycle
\* onInit up to the await of authenticate
InitStart ==
  /\ initPc = "new"
  /\ initPc' = "authenticate"
  /\ last' = [NoStep EXCEPT !.act = "InitStart"]
  /\ UNCHANGED << caps, available, setting, polling, timers, nTimers, nSettings,
                  deleted, cycles, nPolls, prev, unhandled >>

\* authenticate resolved: onInit goes on to the awaits of registerCapabilities
AuthenticateOk ==
  /\ initPc = "authenticate"
  /\ initPc' = "registerCapabilities"
  /\ last' = [NoStep EXCEPT !.act = "AuthenticateOk"]
  /\ UNCHANGED << caps, available, setting, polling, timers, nTimers, nSettings,
                  deleted, cycles, nPolls, prev, unhandled >>

\* authenticate rejected: onInit rejects, polling is never set up
AuthenticateFail ==
  /\ initPc = "authenticate"
  /\ initPc' = "failed"
  /\ last' = [NoStep EXCEPT !.act = "AuthenticateFail"]
  /\ UNCHANGED << caps, available, setting, polling, timers, nTimers, nSettings,
                  deleted, cycles, nPolls, prev, unhandled >>

\* registerCapabilities and registerCapabilityListeners resolved:
\* setupDevicePollingAndDoFirstPoll up to the await inside the first poll()
SetupDevicePollingAndDoFirstPoll ==
  /\ initPc = "registerCapabilities"
  /\ nPolls < MaxPolls
  /\ LET period == IF setting = Null THEN Some(POLL_INTERVAL) ELSE setting
         handle == nTimers + 1
     IN /\ setting' = period
        /\ timers' = timers \cup {[id |-> handle, period |-> 1000 * period[1]]}
        /\ polling' = Some(handle)
        /\ nTimers' = handle
  /\ nPolls' = nPolls + 1
  /\ StartPoll(nPolls + 1, "init")
  /\ initPc' = "poll"
  /\ last' = [NoStep EXCEPT !.act = "SetupDevicePollingAndDoFirstPoll", !.id = nPolls + 1]
  /\ UNCHANGED << caps, available, nSettings, deleted, prev, unhandled >>

\* onDeleted: clearInterval(this.polling)
OnDeleted ==
  /\ deleted' = TRUE
  /\ timers' = { t \in timers : Some(t.id) # polling }
  /\ last' = [NoStep EXCEPT !.act = "OnDeleted"]
  /\ UNCHANGED << caps, available, setting, polling, nTimers, nSettings,
                  initPc, cycles, nPolls, prev, unhandled >>

NewPeriods == {30}

\* An onSettings that sets the new timer up without clearing the old one
OnSettingsKeepTimer(newPolling) ==
  /\ ~ deleted
  /\ initPc # "new"
  /\ nSettings < MaxSettings
  /\ nSettings' = nSettings + 1
  /\ LET handle == nTimers + 1
     IN /\ timers' = timers \cup {[id |-> handle, period |-> 1000 * newPolling]}
        /\ polling' = Some(handle)
        /\ nTimers' = handle
  /\ setting' = Some(newPolling)
  /\ last' = [NoStep EXCEPT !.act = "OnSettings"]
  /\ UNCHANGED << caps, available, initPc, deleted, cycles, nPolls, prev, unhandled >>

\* onSettings: clearTimeout(this.polling), then a new interval timer
OnSettings(newPolling) ==
  /\ ~ deleted
  /\ initPc # "new"
  /\ nSettings < MaxSettings
  /\ nSettings' = nSettings + 1
  /\ LET handle == nTimers + 1
     IN /\ timers' = { t \in timers : Some(t.id) # polling }
                        \cup {[id |-> handle, period |-> 1000 * newPolling]}
        /\ polling' = Some(handle)
        /\ nTimers' = handle
  /\ setting' = Some(newPolling)
  /\ last' = [NoStep EXCEPT !.act = "OnSettings"]
  /\ UNCHANGED << caps, available, initPc, deleted, cycles, nPolls, prev, unhandled >>

\* An active interval timer fires: poll() is called, whatever is in flight
Tick(t) ==
  /\ t \in timers
  /\ nPolls < MaxPolls
  /\ nPolls' = nPolls + 1
  /\ StartPoll(nPolls + 1, "timer")
  /\ last' = [NoStep EXCEPT !.act = "Tick", !.id = nPolls + 1]
  /\ UNCHANGED << caps, available, setting, polling, timers, nTimers, nSettings,
                  initPc, deleted, prev, unhandled >>

\* ------------------------------------------------------- the poll cycle
\* A poll() that takes the missing stats for a charger that delivers no power
pollUndefinedStatsZeroPower(st) == whenChangedSetCapabilityValue(st, "measure_power", 0)

\* poll() when retrieveChargerStats returned undefined: the reconciliation
\* is skipped
pollUndefinedStats(st) == st

\* getChargerStatus rejected: retrieveChargerStats logs, calls setUnavailable
\* and returns undefined; poll() returns
FetchFail(i) ==
  /\ cycles[i].pc = "fetch"
  /\ available' = FALSE
  /\ LET s1 == pollUndefinedStats([caps |-> caps, ops |-> << >>])
         c1 == Account(cycles[i], s1.ops)
     IN /\ caps' = s1.caps
        /\ Settle(i, c1, "done", FALSE, Null)
        /\ last' = [act |-> "FetchFail", id |-> i, ops |-> s1.ops,
                    cycle |-> [c1 EXCEPT !.pc = "done"], sess |-> Null]
  /\ UNCHANGED << setting, polling, timers, nTimers, nSettings, deleted, nPolls >>

\* getChargerStatus resolved with stats: checkDeviceAvailability,
\* whenChangedSetAndTriggerStatus, then whenChangedSetCapabilities, which
\* throws on a missing config block and else runs up to getSessionsList.
\* settled: the write of the status, which is not awaited, had completed
\* when triggerStatusChange was called
FetchOk(i, stats, settled) ==
  /\ cycles[i].pc = "fetch"
  /\ available' = checkDeviceAvailability(stats)
  /\ LET s1 == whenChangedSetAndTriggerStatus([caps |-> caps, ops |-> << >>], stats, settled)
         c0 == [cycles[i] EXCEPT !.stats = Some(stats)]
     IN IF stats.config_data = Null
          THEN /\ caps' = s1.caps
               /\ Settle(i, c0, "rejected", FALSE, Null)
               /\ last' = [act |-> "FetchOk", id |-> i, ops |-> s1.ops,
                           cycle |-> [Account(c0, s1.ops) EXCEPT !.pc = "rejected"],
                           sess |-> Null]
          ELSE LET s2 == whenChangedSetCapabilitiesHead(s1, stats)
                   c1 == [Account(c0, s2.ops) EXCEPT
                            !.pc = "sessions",
                            !.oldE = s2.caps["meter_power_session"]]
               IN /\ caps' = s2.caps
                  /\ cycles' = [cycles EXCEPT ![i] = c1]
                  /\ last' = [act |-> "FetchOk", id |-> i, ops |-> s2.ops,
                              cycle |-> c1, sess |-> Null]
                  /\ UNCHANGED << prev, initPc, unhandled >>
  /\ UNCHANGED << setting, polling, timers, nTimers, nSettings, deleted, nPolls >>

\* getSessionsList rejected, or resolved to a body without a data list (the
\* for-of throws): nothing catches it, poll() rejects
SessionsFail(i, how) ==
  /\ cycles[i].pc = "sessions"
  /\ Settle(i, cycles[i], "rejected", FALSE, Null)
  /\ last' = [act |-> "SessionsFail", id |-> i, ops |-> << >>,
              cycle |-> [cycles[i] EXCEPT !.pc = "rejected"],
              sess |-> IF how = "nodata" THEN Some([data |-> Null]) ELSE Null]
  /\ UNCHANGED << caps, available, setting, polling, timers, nTimers, nSettings,
                  deleted, nPolls >>

\* getSessionsList resolved with a data list: the rest of
\* whenChangedSetCapabilities
SessionsOk(i, sessions) ==
  /\ cycles[i].pc = "sessions"
  /\ sessions.data # Null
  /\ LET c == cycles[i]
         r == whenChangedSetCapabilitiesTail([caps |-> caps, ops |-> << >>],
                                             c.stats[1], c.oldE, sessions)
         outcome == IF r.threw THEN "rejected" ELSE "done"
     IN /\ caps' = r.caps
        /\ Settle(i, c, outcome, ~ r.threw, Some(sessions))
        /\ last' = [act |-> "SessionsOk", id |-> i, ops |-> r.ops,
                    cycle |-> [Account(c, r.ops) EXCEPT !.pc = outcome],
                    sess |-> Some(sessions)]
  /\ UNCHANGED << available, setting, polling, timers, nTimers, nSettings,
                  deleted, nPolls >>

\* The steps of the device lifecycle: onInit, onSettings, onDeleted, the timers
Lifecycle ==
  \/ InitStart
  \/ AuthenticateOk
  \/ AuthenticateFail
  \/ SetupDevicePollingAndDoFirstPoll
  \/ OnDeleted
  \/ \E p \in NewPeriods : OnSettings(p)
  \/ \E t \in timers : Tick(t)

\* The steps of the poll cycles, the API answering from the given sets
Cycle(snapshots, bodies) ==
  \/ \E i \in 1..MaxPolls : FetchFail(i)
  \/ \E i \in 1..MaxPolls, stats \in snapshots, settled \in BOOLEAN :
       FetchOk(i, stats, settled)
  \/ \E i \in 1..MaxPolls, how \in {"rejected", "nodata"} : SessionsFail(i, how)
  \/ \E i \in 1..MaxPolls, sessions \in bodies : SessionsOk(i, sessions)

\* The whole device; the API answers with one of a few snapshots
Next == Lifecycle \/ Cycle(FewSnapshots, FewBodies)

Spec == Init /\ [][Next]_vars

\* A device that is initialised and then polled, never reconfigured or
\* deleted; the API answers with any snapshot and any session list
NextPolling ==
  \/ InitStart
  \/ AuthenticateOk
  \/ SetupDevicePollingAndDoFirstPoll
  \/ \E t \in timers : nPolls < MaxPollsAnyInput /\ Tick(t)
  \/ Cycle(Snapshots, SessionBodies)

SpecPolling == Init /\ [][NextPolling]_vars

\* The snapshots of a charging session: every session energy at every price
ChargingSnapshots ==
  { Snapshot(2, 1, e, Some(7), Some(Config(0, p, 0))) :
      e \in 0..MaxEnergy, p \in 1..MaxPrice }

\* A device that is initialised and then polled while it charges; the
\* session energy and the price change from one snapshot to the next
NextCharging ==
  \/ InitStart
  \/ AuthenticateOk
  \/ SetupDevicePollingAndDoFirstPoll
  \/ \E t \in timers : Tick(t)
  \/ Cycle(ChargingSnapshots, FewBodies)

SpecCharging == Init /\ [][NextCharging]_vars

\* The same with an energy price that never changes
FixedPrice == MaxPrice

FixedPriceSnapshots ==
  { stats \in ChargingSnapshots : stats.config_data[1].energy_price = FixedPrice }

NextFixedPrice ==
  \/ InitStart
  \/ AuthenticateOk
  \/ SetupDevicePollingAndDoFirstPoll
  \/ \E t \in timers : Tick(t)
  \/ Cycle(FixedPriceSnapshots, FewBodies)

SpecFixedPrice == Init /\ [][NextFixedPrice]_vars

\* A session energy and a price whose product is no Number
HighEnergy == 13
HighPrice == 13

SequentialSnapshots ==
  { Snapshot(2, 1, e, Some(7), Some(Config(0, HighPrice, 0))) :
      e \in (0..MaxEnergy) \cup {HighEnergy} }

NoCycleInFlight == \A j \in 1..MaxPolls : ~ InFlight(cycles[j])

\* A device whose API answers before the next tick of the timer, so that
\* no two cycles overlap; the energy price never changes
NextSequential ==
  \/ InitStart
  \/ AuthenticateOk
  \/ SetupDevicePollingAndDoFirstPoll
  \/ \E t \in timers : NoCycleInFlight /\ Tick(t)
  \/ Cycle(SequentialSnapshots, FewBodies)

SpecSequential == Init /\ [][NextSequential]_vars

\* ------------------------------- the older device (src/unnamed/part_000)
\* Its triggerStatusChange compares with ==, which on a string or null
\* against a string literal is equality
part_000_triggerStatusChange(curStatus, newStatus) ==
  LET first == << "status_changed" >>
      onCur == IF curStatus = Some("Charging") THEN << "charging_ended" >>
               ELSE IF curStatus = Some("Ready") THEN << "car_connected" >>
               ELSE << >>
      onNew == IF newStatus = "Charging" THEN << "charging_started" >>
               ELSE IF newStatus = "Ready" THEN << "car_unplugged" >>
               ELSE << >>
  IN IF newStatus = "Error" \/ newStatus = "Updating"
       THEN first
       ELSE first \o onCur \o onNew

part_000_POLL_INTERVAL == 15

\* The capabilities the older device reads and writes
part_000_CapabilityNames ==
  { "status", "locked", "onoff", "measure_power", "meter_power", "measure_current" }

\* What the host does when getCapabilityValue is called with a name that is
\* no capability of the device: it answers null, or it throws
HostAnswers == { "null", "throws" }

\* A JavaScript value used as a capability name
nameOf(b) == IF b THEN "true" ELSE "false"

part_000_whenChangedSetAndTriggerStatus(st, stats, settled) ==
  LET oldStatus == st.caps["status"]
      newStatus == getChargerStatusName(stats)
  IN IF oldStatus # Some(newStatus)
       THEN triggerAll(setCapabilityValueNotAwaited(st, "status", newStatus, settled),
                       part_000_triggerStatusChange(oldStatus, newStatus))
       ELSE st

\* st.threw: an earlier call of the step has thrown, nothing more runs.
\* currentCapabilityValue is a JavaScript value that may be null.  For a name
\* that is no capability, getCapabilityValue throws or answers null, and
\* setCapabilityValue rejects.
part_000_whenChangedSetCapabilityValue(st, capabilityName, currentCapabilityValue, host) ==
  IF st.threw THEN st
  ELSE IF capabilityName \notin part_000_CapabilityNames
    THEN IF host = "throws" \/ currentCapabilityValue # Null
           THEN [st EXCEPT !.threw = TRUE]
           ELSE st
    ELSE IF currentCapabilityValue # st.caps[capabilityName]
           THEN LET w == setCapabilityValue([caps |-> st.caps, ops |-> st.ops],
                                            capabilityName, currentCapabilityValue[1])
                IN [caps |-> w.caps, ops |-> w.ops, threw |-> FALSE]
           ELSE st

\* stats has a config block
part_000_whenChangedSetCapabilities(st, stats, host) ==
  LET cfg == stats.config_data[1]
      isLocked == Boolean(cfg.locked)
      lockedStatus == st.caps["locked"]
      s1 == part_000_whenChangedSetCapabilityValue(
              [caps |-> st.caps, ops |-> st.ops, threw |-> FALSE],
              nameOf(isLocked), lockedStatus, host)
      newStatus == getChargerStatusName(stats)
      isOnOff == newStatus # "Paused"
      onOffStatus == s1.caps["onoff"]
      s2 == part_000_whenChangedSetCapabilityValue(s1, nameOf(isOnOff), onOffStatus, host)
      chargingPowerInW == Times(stats.charging_power, 1000)
      s3 == part_000_whenChangedSetCapabilityValue(s2, "measure_power",
                                                   Some(chargingPowerInW), host)
      sessionEnergySupplied == stats.added_energy
      s4 == part_000_whenChangedSetCapabilityValue(s3, "meter_power",
                                                   Some(sessionEnergySupplied), host)
      maxChargingCurrent == cfg.max_charging_current
  IN part_000_whenChangedSetCapabilityValue(s4, "measure_current",
                                            Some(maxChargingCurrent), host)

\* The store of the model holds the capabilities of both versions of the
\* device; the older one touches its own only
part_000_Init ==
  /\ caps = [n \in CapabilityNames \cup part_000_CapabilityNames |-> Null]
  /\ available = TRUE
  /\ setting = Null
  /\ polling = Null
  /\ timers = {}
  /\ nTimers = 0
  /\ nSettings = 0
  /\ initPc = "new"
  /\ deleted = FALSE
  /\ cycles = [i \in 1..MaxPolls |-> IdleCycle]
  /\ nPolls = 0
  /\ prev = Null
  /\ unhandled = 0
  /\ last = NoStep

\* registerCapabilityListeners resolved: setupDevicePollingAndDoFirstPoll up
\* to the await inside the first poll()
part_000_SetupDevicePollingAndDoFirstPoll ==
  /\ initPc = "registerCapabilities"
  /\ nPolls < MaxPolls
  /\ LET period == IF setting = Null THEN Some(part_000_POLL_INTERVAL) ELSE setting
         handle == nTimers + 1
     IN /\ setting' = period
        /\ timers' = timers \cup {[id |-> handle, period |-> 1000 * period[1]]}
        /\ polling' = Some(handle)
        /\ nTimers' = handle
  /\ nPolls' = nPolls + 1
  /\ StartPoll(nPolls + 1, "init")
  /\ initPc' = "poll"
  /\ last' = [NoStep EXCEPT !.act = "SetupDevicePollingAndDoFirstPoll", !.id = nPolls + 1]
  /\ UNCHANGED << caps, available, nSettings, deleted, prev, unhandled >>

\* getChargerStatus resolved with stats: checkDeviceAvailability,
\* whenChangedSetAndTriggerStatus, whenChangedSetCapabilities; poll() has no
\* other await that suspends it
part_000_FetchOk(i, stats, host, settled) ==
  /\ cycles[i].pc = "fetch"
  /\ available' = checkDeviceAvailability(stats)
  /\ LET s1 == part_000_whenChangedSetAndTriggerStatus([caps |-> caps, ops |-> << >>],
                                                      stats, settled)
         c0 == [cycles[i] EXCEPT !.stats = Some(stats)]
         s2 == IF stats.config_data = Null
                 THEN [caps |-> s1.caps, ops |-> s1.ops, threw |-> TRUE]
                 ELSE part_000_whenChangedSetCapabilities(s1, stats, host)
         outcome == IF s2.threw THEN "rejected" ELSE "done"
     IN /\ caps' = s2.caps
        /\ Settle(i, c0, outcome, ~ s2.threw, Null)
        /\ last' = [act |-> "part_000_FetchOk", id |-> i, ops |-> s2.ops,
                    cycle |-> [Account(c0, s2.ops) EXCEPT !.pc = outcome],
                    sess |-> Null]
  /\ UNCHANGED << setting, polling, timers, nTimers, nSettings, deleted, nPolls >>

\* The older device, initialised and then polled; onInit, the timer and
\* retrieveChargerStats are those of the newer one
part_000_Next ==
  \/ InitStart
  \/ AuthenticateOk
  \/ part_000_SetupDevicePollingAndDoFirstPoll
  \/ \E t \in timers : nPolls < MaxPollsAnyInput /\ Tick(t)
  \/ \E i \in 1..MaxPolls : FetchFail(i)
  \/ \E i \in 1..MaxPolls, stats \in Snapshots, host \in HostAnswers, settled \in BOOLEAN :
       part_000_FetchOk(i, stats, host, settled)

part_000_Spec == part_000_Init /\ [][part_000_Next]_vars

\* ------------------------------------------------------------- claims
\* The cycle the latest step belonged to, as that step left it
Cur == last.cycle

\* The session cost the accumulator rule gives for energy e at price p after
\* energy prevE and cost prevC (an unset value counts as 0), in the
\* arithmetic of Numbers
RuleCost(e, prevE, prevC, p) ==
  IF e < Num(prevE) \/ e = 0 THEN Times(e, p)
  ELSE Plus(Num(prevC), Times(Minus(e, Num(prevE)), p))

\* C1: in every poll cycle whose fetch and session-list call succeed, the
\* held session cost after the cycle is the accumulator rule applied to the
\* session energy and session cost held when the cycle started.
C1_CostFromValuesHeldAtStart ==
  last.act = "SessionsOk" =>
    caps["meter_session_cost"] =
      Some(RuleCost(Cur.stats[1].added_energy, Cur.startE, Cur.startC,
                    Cur.stats[1].config_data[1].energy_price))

\* C2: at most one poll cycle of the device is in flight at any time.
C2_AtMostOneCycleInFlight ==
  Cardinality({ i \in 1..MaxPolls : InFlight(cycles[i]) }) <= 1

\* C3: a poll cycle in which getChargerStatus fails leaves every held
\* observable unchanged, emits no event and sets the device unavailable.
C3_FetchFailureLeavesObservables ==
  [][ last'.act = "FetchFail" =>
        /\ caps' = caps
        /\ last'.ops = << >>
        /\ available' = FALSE ]_vars

\* C3 happens: a fetch fails on a device that holds values of an earlier
\* cycle and was available until then
C3_Witness ==
  /\ last.act = "FetchFail"
  /\ caps["status"] = Some("Charging")
  /\ caps["meter_power_session"] = Some(1)
  /\ available = FALSE

\* C4: no poll cycle ends with an error that reaches the timer that invoked
\* it: a poll() called by the timer never rejects.
C4_NoErrorReachesTimer == unhandled = 0

\* C5: a snapshot without a config block aborts the cycle like a fetch
\* failure: nothing is written, no event is emitted, the device is
\* unavailable.
C5_MalformedSnapshotAborts ==
  (last.act = "FetchOk" /\ Cur.stats[1].config_data = Null) =>
    /\ last.ops = << >>
    /\ available = FALSE
    /\ Cur.pc = "done"

\* C6: when the session-list call fails, the cycle still reconciles the
\* other observables: session energy, session cost, energy cost, maximum
\* charging current, user id and user name are those of the snapshot.
C6_SessionFailureStillReconciles ==
  last.act = "SessionsFail" =>
    LET stats == Cur.stats[1]
        cfg == stats.config_data[1]
    IN /\ caps["meter_power_session"] = Some(stats.added_energy)
       /\ caps["meter_session_cost"] =
            Some(RuleCost(stats.added_energy, Cur.oldE, Cur.startC, cfg.energy_price))
       /\ caps["measure_energy_cost"] = Some(cfg.energy_price)
       /\ caps["measure_maximum_charging_current"] = Some(cfg.max_charging_current)
       /\ stats.user_id # Null =>
            /\ caps["user_id"] = Some(toString(stats.user_id[1]))
            /\ caps["user_name"] = stats.user_name

\* C7: once onDeleted has been called, no poll cycle starts any more.
C7_NoCycleStartsAfterStop ==
  [][ deleted => nPolls' = nPolls ]_vars

\* C8: a cycle whose snapshot and session list are those of the successful
\* cycle that completed just before it started writes nothing and emits
\* nothing.
C8_SecondRunWritesNothing ==
  ( /\ last.act = "SessionsOk"
    /\ Cur.pc = "done"
    /\ Cur.prevIn = Some([stats |-> Cur.stats[1], sess |-> last.sess]) ) =>
    /\ Cur.writes = 0
    /\ Cur.evs = 0

\* The energy of the history: the sessions of the device that have one
RECURSIVE HistoryEnergy(_)
HistoryEnergy(data) ==
  IF data = << >> THEN 0
  ELSE LET n == Len(data) IN
       HistoryEnergy(SubSeq(data, 1, n - 1))
       + (IF data[n].charger = DeviceId /\ data[n].energy # Null
            THEN data[n].energy[1] ELSE 0)

\* C9: after every cycle whose fetch and session-list call succeed, the held
\* lifetime energy is the energy of the history plus the snapshot's session
\* energy.
C9_LifetimeEnergyIsHistoryPlusSession ==
  last.act = "SessionsOk" =>
    caps["meter_power"] =
      Some(HistoryEnergy(last.sess[1].data[1]) + Cur.stats[1].added_energy)

\* C10: a poll cycle never writes to an observable the value it holds.
C10_NoWriteOfHeldValue ==
  \A k \in 1..Len(last.ops) : last.ops[k].op = "set" => ~ last.ops[k].same

\* The names of the status table, and what the status capability may hold
StatusNames == { getStatus(statusId) : statusId \in 0..6 }

HeldStatuses == { Null } \cup { Some(n) : n \in StatusNames }

\* The flow cards a step triggered, in order
Triggers(ops) ==
  LET t == SelectSeq(ops, LAMBDA o : o.op = "trigger")
  IN [k \in 1..Len(t) |-> t[k].name]

\* The sequence of events of the status transition old -> new
ExpectedEvents(old, new) ==
  IF new \in {"Error", "Updating"} THEN << "status_changed" >>
  ELSE << "status_changed" >>
       \o (CASE old = Some("Charging") -> << "charging_ended" >>
             [] old = Some("Ready") -> << "car_connected" >>
             [] OTHER -> << >>)
       \o (CASE new = "Charging" -> << "charging_started" >>
             [] new = "Ready" -> << "car_unplugged" >>
             [] OTHER -> << >>)

\* C11: for every pair of statuses old # new, triggerStatusChange (of both
\* device sources) emits exactly: status_changed; nothing more if new is
\* Error or Updating; else charging_ended if old is Charging, else
\* car_connected if old is Ready; then charging_started if new is Charging,
\* else car_unplugged if new is Ready.  A poll step that finds the held
\* status different from the snapshot's triggers exactly that sequence.
C11_ExactEventSequence ==
  [][ /\ \A old \in HeldStatuses, new \in StatusNames :
           old # Some(new) =>
             /\ triggerStatusChange(old, new) = ExpectedEvents(old, new)
             /\ part_000_triggerStatusChange(old, new) = ExpectedEvents(old, new)
      /\ ( /\ last'.act = "FetchOk"
           /\ caps["status"] # Some(getChargerStatusName(last'.cycle.stats[1])) ) =>
           Triggers(last'.ops) =
             ExpectedEvents(caps["status"], getChargerStatusName(last'.cycle.stats[1]))
    ]_vars

\* C11 happens: a poll found Ready where Charging was held
C11_Witness ==
  /\ last.act = "FetchOk"
  /\ caps["status"] = Some("Ready")
  /\ Triggers(last.ops) = << "status_changed", "charging_ended", "car_unplugged" >>

\* C12: after every poll cycle whose fetch succeeded and that overlapped no
\* other cycle, the device is unavailable exactly when the status name of
\* the snapshot is Disconnected or Error; in both cases the held status is
\* that name and, the snapshot having a config block, locked, onoff, the
\* maximum available current and the power are those of the snapshot.
C12_AvailabilityFollowsStatus ==
  ( /\ last.act \in {"FetchOk", "SessionsFail", "SessionsOk"}
    /\ ~ Cur.overlapped ) =>
    LET stats == Cur.stats[1]
        newStatus == getChargerStatusName(stats)
    IN /\ available = (newStatus \notin {"Disconnected", "Error"})
       /\ caps["status"] = Some(newStatus)
       /\ stats.config_data # Null =>
            /\ caps["locked"] = Some(Boolean(stats.config_data[1].locked))
            /\ caps["onoff"] = Some(newStatus # "Paused")
            /\ caps["maximum_available_current"] =
                 Some(stats.config_data[1].max_available_current)
            /\ caps["measure_power"] = Some(stats.charging_power * 1000)

\* C12 happens: a cycle on its own found the charger in Error after a cycle
\* that had found it charging, and completed
C12_Witness ==
  /\ last.act = "SessionsOk"
  /\ ~ Cur.overlapped
  /\ Cur.pc = "done"
  /\ Cur.prevIn # Null
  /\ getChargerStatusName(Cur.prevIn[1].stats) = "Charging"
  /\ getChargerStatusName(Cur.stats[1]) = "Error"
  /\ available = FALSE
  /\ caps["status"] = Some("Error")
  /\ caps["measure_power"] = Some(0)

\* C13: in both versions of the device, after a poll cycle whose API calls
\* all succeeded, the held locked is the snapshot's config.locked, the held
\* onoff is (status name # Paused) and the held measure_power is
\* charging_power * 1000.
C13_LockedOnOffPowerReconciled ==
  ( /\ \/ last.act = "SessionsOk"
       \/ last.act = "part_000_FetchOk"
    /\ Cur.pc = "done" ) =>
    LET stats == Cur.stats[1]
    IN /\ caps["locked"] = Some(Boolean(stats.config_data[1].locked))
       /\ caps["onoff"] = Some(getChargerStatusName(stats) # "Paused")
       /\ caps["measure_power"] = Some(stats.charging_power * 1000)

\* C14: onSettings cancels the timer this.polling referred to and installs
\* one timer, with the new period, that this.polling then refers to; it
\* starts no poll cycle and changes nothing a cycle reads or writes.
C14_ReconfigureRestartsTimerOnly ==
  [][ last'.act = "OnSettings" =>
        /\ \A t \in timers : Some(t.id) = polling => t \notin timers'
        /\ \E t \in timers' \ timers :
             /\ timers' \ timers = {t}
             /\ t.period \in { 1000 * p : p \in NewPeriods }
             /\ t.period = 1000 * setting'[1]
             /\ polling' = Some(t.id)
        /\ nPolls' = nPolls
        /\ cycles' = cycles
        /\ caps' = caps
        /\ available' = available ]_vars

\* C14 happens: onSettings ran on a device whose first poll had completed and
\* whose timer of setupDevicePollingAndDoFirstPoll was the active one; the
\* new timer is the only one
C14_Witness ==
  /\ last.act = "OnSettings"
  /\ initPc = "done"
  /\ nTimers = 2
  /\ timers = {[id |-> 2, period |-> 30000]}
  /\ polling = Some(2)

\* The capabilities a step wrote, and the place of a write among its
\* operations
Written(ops) == { ops[k].name : k \in { j \in 1..Len(ops) : ops[j].op = "set" } }

Pos(ops, name) == CHOOSE k \in 1..Len(ops) : ops[k].op = "set" /\ ops[k].name = name

AllThreeWritten ==
  /\ last.act = "SessionsOk"
  /\ {"meter_power_session", "meter_session_cost", "meter_power"} \subseteq Written(last.ops)

\* C15: in a poll cycle where session energy, session cost and lifetime
\* energy all change, the three writes happen in the order session energy
\* (meter_power_session), session cost (meter_session_cost), lifetime energy
\* (meter_power).
C15_SessionEnergyCostLifetimeOrder ==
  AllThreeWritten =>
    /\ Pos(last.ops, "meter_power_session") < Pos(last.ops, "meter_session_cost")
    /\ Pos(last.ops, "meter_session_cost") < Pos(last.ops, "meter_power")

\* C15, amended: in a poll cycle where session energy, session cost and
\* lifetime energy all change, the three writes happen in the order lifetime
\* energy (meter_power), session cost (meter_session_cost), session energy
\* (meter_power_session); the session energy the cost is computed from was
\* read before any of them.
C15_LifetimeCostSessionEnergyOrder ==
  AllThreeWritten =>
    /\ Pos(last.ops, "meter_power") < Pos(last.ops, "meter_session_cost")
    /\ Pos(last.ops, "meter_session_cost") < Pos(last.ops, "meter_power_session")

\* C15 happens: a cycle wrote a new lifetime energy, session cost and
\* session energy over held ones
C15_Witness ==
  /\ AllThreeWritten
  /\ Cur.startE = Some(1)
  /\ Cur.startC # Null
  /\ caps["meter_power_session"] = Some(2)

\* C16: in every poll cycle, events are emitted if and only if the held
\* status differs from the status name of the snapshot, and the write of
\* the new status has completed before the first event (status_changed) is
\* emitted.
C16_StatusWrittenBeforeEvents ==
  [][ last'.act = "FetchOk" =>
        LET newStatus == getChargerStatusName(last'.cycle.stats[1])
            differs == caps["status"] # Some(newStatus)
            ops == last'.ops
        IN /\ (Triggers(ops) # << >>) <=> differs
           /\ differs =>
                /\ ops[1].op = "set" /\ ops[1].name = "status"
                /\ ops[2].op = "trigger" /\ ops[2].name = "status_changed"
                /\ ops[1].settled
    ]_vars

\* The snapshot differs from the previous one in the energy price and in
\* nothing else
OnlyPriceDiffers(previous, stats) ==
  /\ previous.config_data # Null
  /\ stats.config_data # Null
  /\ stats.config_data[1].energy_price # previous.config_data[1].energy_price
  /\ previous =
       [stats EXCEPT !.config_data =
          Some([@[1] EXCEPT !.energy_price = previous.config_data[1].energy_price])]

\* C17: a poll cycle whose snapshot differs from the one of the cycle that
\* completed before it only in the energy price writes the new energy cost
\* (measure_energy_cost) and leaves the held session cost
\* (meter_session_cost) as it is.
C17_PriceChangeDoesNotReprice ==
  ( /\ last.act = "SessionsOk"
    /\ Cur.prevIn # Null
    /\ OnlyPriceDiffers(Cur.prevIn[1].stats, Cur.stats[1]) ) =>
    /\ "measure_energy_cost" \in Written(last.ops)
    /\ caps["measure_energy_cost"] = Some(Cur.stats[1].config_data[1].energy_price)
    /\ "meter_session_cost" \notin Written(last.ops)
    /\ caps["meter_session_cost"] = Cur.startC

C19_NoIncrementBilledTwice ==
  NoCycleInFlight =>
    Num(caps["meter_session_cost"]) = Times(Num(caps["meter_power_session"]), FixedPrice)

\* C20: at every moment at most one interval timer of the device is active,
\* and this.polling refers to it, under any interleaving of onInit,
\* onSettings and onDeleted: no timer runs without a handle to cancel it.
C20_OneTimerWithHandle ==
  /\ Cardinality(timers) <= 1
  /\ \A t \in timers : polling = Some(t.id)

====
